---- MODULE Spec2Model ----
(***************************************************************************)
(* Model of the resilience and protocol layer of pwndoc-mcp-server:        *)
(*   - RateLimiter           (client.py, sliding window admission)         *)
(*   - PwnDocClient session  (authenticate / refresh_authentication)       *)
(*   - PwnDocClient._request (rate-limit wait, retry loop, status mapping) *)
(*   - PwnDocMCPServer       (_handle_message dispatcher, run_stdio loop)  *)
(* Time is counted in whole seconds; time.time() and datetime.now() read   *)
(* the same clock `now`.                                                   *)
(***************************************************************************)
EXTENDS Integers, Sequences, FiniteSets, TLC

VARIABLES
    config,         \* Config fields the core reads (fixed after construction)
    now,            \* the wall clock, seconds
    requests,       \* RateLimiter.requests: deque of timestamps, oldest first
    lim,            \* last direct RateLimiter call: [op, ret]
    session,        \* [token, token_expires, refresh_token] of PwnDocClient
    pc,             \* position of the running _request call
    attempt,        \* loop variable of the retry loop in _request
    headers,        \* the Authorization header value built for the call
    last_error,     \* last_error of _request
    outcome,        \* what _request returned or raised
    trace,          \* one entry per HTTP attempt of the running call
    answer,         \* the upstream's answer to the latest HTTP attempt
    reauths,        \* refresh_authentication() calls made by the retry loop
    net,            \* endpoints called by the latest session operation
    netst,          \* what each of them answered: the status, 0 for no answer
    slots,          \* timestamps the running call appended to the rate window
    call,           \* the client operation that is running or just ended
    calls,          \* number of client operations started so far
    spc,            \* run_stdio: "off" (no server), "read", "tool", "eof"
    initialized,    \* PwnDocMCPServer._initialized
    client_created, \* PwnDocMCPServer._client is not None
    tools,          \* PwnDocMCPServer._tools, in registration order
    message,        \* the message decoded from the latest line, <<>> if none
    response,       \* what _handle_message returned for it, <<>> for None
    stdout,         \* the lines written for the latest input line
    invoked,        \* tool handlers invoked for the latest line
    nread,          \* input lines read so far
    lastline,       \* what the latest line was: "eof", "badjson", ...
    skipped,        \* the lines skipped as invalid so far, by kind
    registered,     \* the calls of _register_tool made so far
    outlog,         \* for each line written so far, the input line it answers
    conns           \* run_sse: the inbound connections and where each stands

serverVars == <<spc, initialized, client_created, tools, message, response,
                stdout, invoked, nread, lastline, skipped, registered,
                outlog, conns>>

vars == <<config, now, requests, lim, session, pc, attempt, headers,
          last_error, outcome, trace, answer, reauths, net, netst, slots, call,
          calls, serverVars>>

----------------------------------------------------------------------------
(* Bounds of the model *)

MaxTime == 6            \* the clock's small steps stop here (before the jump)
MaxRetriesBound == 3    \* config.max_retries ranges over 0..MaxRetriesBound
MaxRequestsBound == 2   \* config.rate_limit_requests ranges over 1..MaxRequestsBound
MaxCalls == 2           \* client operations started in one run
MaxLines == 2           \* input lines read by run_stdio in one run
MaxRegs == 3            \* calls of _register_tool in one construction
MaxConns == 2           \* inbound connections of run_sse in one run

(* Program constants *)

TokenLifetime == 3600   \* timedelta(hours=1)
DefaultRetryAfter == 60 \* response.headers.get("Retry-After", 60)

None == "None"

RetryDelays == {1, 2}
Periods == {2, 3}
ClientPeriod == 2       \* rate_limit_period of the client runs

----------------------------------------------------------------------------
(* The clock.  It never runs backwards.  Small steps model ordinary passing *)
(* of time; one long idle period, a second short of a token lifetime,      *)
(* brings issued tokens to the point of expiry.                            *)

LongIdle == TokenLifetime - 1

ClockOK(t) ==
    \/ t <= MaxTime
    \/ (LongIdle <= t /\ t <= LongIdle + MaxTime)

TickSteps == {1, LongIdle}

----------------------------------------------------------------------------
(* RateLimiter (client.py 20-45) *)

RECURSIVE Prune(_, _, _)
Prune(reqs, t, period) ==
    IF reqs # <<>> /\ Head(reqs) < t - period
    THEN Prune(Tail(reqs), t, period)
    ELSE reqs

acquire_off_by_one(reqs, t, max_requests, period) ==
    LET pruned == Prune(reqs, t, period) IN
    IF Len(pruned) <= max_requests
    THEN [requests |-> Append(pruned, t), ret |-> TRUE]
    ELSE [requests |-> pruned, ret |-> FALSE]

acquire_evicts_when_full(reqs, t, max_requests, period) ==
    LET pruned == Prune(reqs, t, period) IN
    IF Len(pruned) < max_requests
    THEN [requests |-> Append(pruned, t), ret |-> TRUE]
    ELSE [requests |-> Tail(pruned), ret |-> FALSE]

acquire(reqs, t, max_requests, period) ==
    LET pruned == Prune(reqs, t, period) IN
    IF Len(pruned) < max_requests
    THEN [requests |-> Append(pruned, t), ret |-> TRUE]
    ELSE [requests |-> pruned, ret |-> FALSE]

wait_time_elapsed(reqs, t, max_requests, period) ==
    IF Len(reqs) < max_requests
    THEN 0
    ELSE t - Head(reqs)

wait_time(reqs, t, max_requests, period) ==
    IF Len(reqs) < max_requests
    THEN 0
    ELSE Head(reqs) + period - t

(* Number of recorded timestamps younger than `period` seconds at time t. *)
Younger(reqs, t, period) ==
    Cardinality({i \in DOMAIN reqs : t - reqs[i] < period})

----------------------------------------------------------------------------
(* What the upstream may answer.  status = 0 marks an httpx.RequestError    *)
(* (connection refused, timeout, DNS failure), x then names the error.     *)

Resp(t, status, x) == [t |-> t, status |-> status, x |-> x]

NoResp == Resp("none", 0, "")

TransportErrors == {"refused", "timeout"}

(* Answers to an API request: x is the body kind, or for 429 the            *)
(* Retry-After header.                                                     *)
UpstreamResponses ==
    {Resp("err", 0, e) : e \in TransportErrors}
    \cup {Resp("http", 200, "json"), Resp("http", 200, "text"),
          Resp("http", 204, ""), Resp("http", 401, ""), Resp("http", 404, ""),
          Resp("http", 429, "absent"), Resp("http", 429, "30"),
          Resp("http", 429, "date"),
          Resp("http", 500, "")}

(* Answers of the login and refresh endpoints.  A 200 answer holds        *)
(* {"datas": {"token": ...}}; cookie says whether a refreshToken cookie is *)
(* set with it.                                                            *)
AuthResponses ==
    {[t |-> "http", status |-> 200, x |-> "token", cookie |-> c] :
        c \in BOOLEAN}
    \cup {[t |-> "http", status |-> 401, x |-> "", cookie |-> FALSE],
          [t |-> "err", status |-> 0, x |-> "refused", cookie |-> FALSE]}

NoAnswer == [t |-> "none", status |-> 0, x |-> "", cookie |-> FALSE]

(* The answers a re-authentication in this state can meet: the refresh     *)
(* endpoint is called only with a refresh token held, the login endpoint   *)
(* only with username and password set.                                    *)
AuthInputs(sess, c) ==
    [ login : IF c.userpass THEN AuthResponses ELSE {NoAnswer},
      refresh : IF sess.refresh_token # None THEN AuthResponses
                ELSE {NoAnswer} ]

(* The token the upstream issues: a new one, never the one in use. *)
IssuedToken(cur) == IF cur = "jwt1" THEN "jwt2" ELSE "jwt1"

BodyToken(resp, cur) == IF resp.x = "token" THEN IssuedToken(cur) ELSE None

----------------------------------------------------------------------------
(* Session (client.py 247-346).  token_expires is <<>> when unset.         *)

is_authenticated_ignores_expiry(sess, t) == sess.token # None

is_authenticated(sess, t) ==
    /\ sess.token # None
    /\ ~(sess.token_expires # <<>> /\ t >= sess.token_expires[1])

AuthResult(sess, exc, msg, called) ==
    [session |-> sess, exc |-> exc, msg |-> msg, net |-> called]

authenticate_no_expiry(sess, t, c, in) ==
    IF c.userpass
    THEN IF in.login.t = "err"
         THEN AuthResult(sess, "AuthenticationError", "Connection error",
                         <<"login">>)
         ELSE IF in.login.status = 200
         THEN AuthResult(
                [ token |-> BodyToken(in.login, sess.token),
                  refresh_token |-> IF in.login.cookie THEN "rt"
                                    ELSE sess.refresh_token,
                  token_expires |-> sess.token_expires ],
                None, "", <<"login">>)
         ELSE AuthResult(sess, "AuthenticationError", "Authentication failed",
                         <<"login">>)
    ELSE IF c.token
    THEN AuthResult([sess EXCEPT !.token = "static"], None, "", <<>>)
    ELSE AuthResult(sess, "AuthenticationError", "No credentials configured",
                    <<>>)

authenticate_static_fallback(sess, t, c, in) ==
    IF c.userpass /\ in.login.t = "http" /\ in.login.status = 200
    THEN AuthResult(
           [ token |-> BodyToken(in.login, sess.token),
             refresh_token |-> IF in.login.cookie THEN "rt"
                               ELSE sess.refresh_token,
             token_expires |-> <<t + TokenLifetime>> ],
           None, "", <<"login">>)
    ELSE IF c.token
    THEN AuthResult([sess EXCEPT !.token = "static"], None, "",
                    IF c.userpass THEN <<"login">> ELSE <<>>)
    ELSE AuthResult(sess, "AuthenticationError", "No credentials configured",
                    IF c.userpass THEN <<"login">> ELSE <<>>)

(* A login that forgets the token it held when it is rejected. *)
authenticate_logout_on_failure(sess, t, c, in) ==
    IF c.userpass
    THEN IF in.login.t = "err"
         THEN AuthResult(sess, "AuthenticationError", "Connection error",
                         <<"login">>)
         ELSE IF in.login.status = 200
         THEN AuthResult(
                [ token |-> BodyToken(in.login, sess.token),
                  refresh_token |-> IF in.login.cookie THEN "rt"
                                    ELSE sess.refresh_token,
                  token_expires |-> <<t + TokenLifetime>> ],
                None, "", <<"login">>)
         ELSE AuthResult([sess EXCEPT !.token = None], "AuthenticationError",
                         "Authentication failed", <<"login">>)
    ELSE IF c.token
    THEN AuthResult([sess EXCEPT !.token = "static"], None, "", <<>>)
    ELSE AuthResult(sess, "AuthenticationError", "No credentials configured",
                    <<>>)

authenticate(sess, t, c, in) ==
    IF c.userpass
    THEN IF in.login.t = "err"
         THEN AuthResult(sess, "AuthenticationError", "Connection error",
                         <<"login">>)
         ELSE IF in.login.status = 200
         THEN AuthResult(
                [ token |-> BodyToken(in.login, sess.token),
                  refresh_token |-> IF in.login.cookie THEN "rt"
                                    ELSE sess.refresh_token,
                  token_expires |-> <<t + TokenLifetime>> ],
                None, "", <<"login">>)
         ELSE AuthResult(sess, "AuthenticationError", "Authentication failed",
                         <<"login">>)
    ELSE IF c.token
    THEN AuthResult([sess EXCEPT !.token = "static"], None, "", <<>>)
    ELSE AuthResult(sess, "AuthenticationError", "No credentials configured",
                    <<>>)

refresh_authentication_no_fallback(sess, t, c, in) ==
    IF sess.refresh_token # None
    THEN IF in.refresh.t = "http" /\ in.refresh.status = 200
         THEN AuthResult(
                [sess EXCEPT !.token = BodyToken(in.refresh, sess.token),
                             !.token_expires = <<t + TokenLifetime>>],
                None, "", <<"refresh">>)
         ELSE AuthResult(sess, "AuthenticationError", "Token refresh failed",
                         <<"refresh">>)
    ELSE authenticate(sess, t, c, in)

refresh_authentication(sess, t, c, in) ==
    IF sess.refresh_token # None
    THEN IF in.refresh.t = "http" /\ in.refresh.status = 200
         THEN AuthResult(
                [sess EXCEPT !.token = BodyToken(in.refresh, sess.token),
                             !.token_expires = <<t + TokenLifetime>>],
                None, "", <<"refresh">>)
         ELSE LET a == authenticate(sess, t, c, in) IN
              AuthResult(a.session, a.exc, a.msg, <<"refresh">> \o a.net)
    ELSE authenticate(sess, t, c, in)

ensure_authenticated(sess, t, c, in) ==
    IF ~is_authenticated(sess, t)
    THEN IF sess.refresh_token # None
         THEN refresh_authentication(sess, t, c, in)
         ELSE authenticate(sess, t, c, in)
    ELSE AuthResult(sess, None, "", <<>>)

get_headers(sess) == sess.token

(* What the endpoints called by a session operation answered. *)
AnswerStatus(a) == IF a.t = "http" THEN a.status ELSE 0

NetStatus(in, called) ==
    [i \in DOMAIN called |->
        IF called[i] = "login" THEN AnswerStatus(in.login)
        ELSE AnswerStatus(in.refresh)]

----------------------------------------------------------------------------
(* Tool registry (server.py 109-1336): name-keyed, in insertion order. *)

Tool(name, handler) == [name |-> name, handler |-> handler]

ToolNames(tls) == {tls[i].name : i \in DOMAIN tls}

(* A registry that keeps the first descriptor of a name. *)
register_tool_first_wins(tls, name, handler) ==
    IF name \in ToolNames(tls)
    THEN tls
    ELSE Append(tls, Tool(name, handler))

(* self._tools[name] = Tool(...): a new key is appended, an existing key   *)
(* keeps its place and gets the new descriptor.                            *)
register_tool(tls, name, handler) ==
    IF name \in ToolNames(tls)
    THEN [i \in DOMAIN tls |->
            IF tls[i].name = name THEN Tool(name, handler) ELSE tls[i]]
    ELSE Append(tls, Tool(name, handler))

(* The tools of the model, as _register_tools registers them. *)
Registrations ==
    << Tool("list_audits", "_handle_list_audits"),
       Tool("get_audit", "_handle_get_audit") >>

RECURSIVE RegisterFrom(_, _, _)
RegisterFrom(tls, regs, i) ==
    IF i > Len(regs) THEN tls
    ELSE RegisterFrom(register_tool(tls, regs[i].name, regs[i].handler),
                      regs, i + 1)

RegisterAll(regs) == RegisterFrom(<<>>, regs, 1)

----------------------------------------------------------------------------
(* Construction *)

Configs ==
    [ userpass : BOOLEAN,      \* config.username and config.password both set
      token : BOOLEAN,         \* config.token set
      max_retries : 0..MaxRetriesBound,
      retry_delay : RetryDelays,
      rate_limit_requests : 1..MaxRequestsBound,
      rate_limit_period : Periods ]

Outcome(kind, exc, tag, code, err) ==
    [kind |-> kind, exc |-> exc, tag |-> tag, code |-> code, err |-> err]

NoOutcome == Outcome("none", None, "", 0, None)

Raise(exc, tag, code, err) == Outcome("raise", exc, tag, code, err)

(* PwnDocClient.__init__ : the static token becomes the session token. *)
NewSession_empty(c) ==
    [ token |-> None, token_expires |-> <<>>, refresh_token |-> None ]

NewSession(c) ==
    [ token |-> IF c.token THEN "static" ELSE None,
      token_expires |-> <<>>,
      refresh_token |-> None ]

(* An inbound POST /mcp whose handler has not started: where the handler  *)
(* stands, the id of its message, the response it got from the dispatcher  *)
(* (its id, <<>> for none) and the data lines written to it.               *)
NewConn == [at |-> "open", id |-> <<>>, res |-> <<>>, nout |-> 0]

ConstructBase ==
    /\ config \in Configs
    /\ now = 0
    /\ requests = <<>>
    /\ lim = [op |-> "none", ret |-> None, before |-> <<>>, at |-> 0]
    /\ session = NewSession(config)
    /\ pc = "idle"
    /\ attempt = 0
    /\ headers = None
    /\ last_error = None
    /\ outcome = NoOutcome
    /\ trace = <<>>
    /\ answer = NoResp
    /\ reauths = 0
    /\ net = <<>>
    /\ netst = <<>>
    /\ slots = 0
    /\ call = "none"
    /\ calls = 0
    /\ initialized = FALSE
    /\ client_created = FALSE
    /\ message = <<>>
    /\ response = <<>>
    /\ stdout = <<>>
    /\ invoked = <<>>
    /\ nread = 0
    /\ lastline = "none"
    /\ skipped = <<>>
    /\ outlog = <<>>
    /\ conns = [c \in 1..MaxConns |-> NewConn]

(* The server's registry is built by _register_tools in __init__. *)
Construct ==
    /\ ConstructBase
    /\ registered = Registrations
    /\ tools = RegisterAll(Registrations)

(* A client (or a rate limiter) used directly: no server runs. *)
Init ==
    /\ Construct
    /\ spc = "off"

clientVars == <<session, pc, attempt, headers, last_error, outcome, trace,
                answer, reauths, net, netst, slots, call, calls>>

(* Time passes between two calls, and between acquire() and wait_time() of *)
(* the rate-limit wait; inside the retry loop it passes by the sleeps.     *)
(* Under the server the time spent waiting for a line passes before the    *)
(* tool call it starts.                                                    *)
(* Time 0 is the moment the first timestamp is taken: before that, no      *)
(* state holds a time and the passing of time changes nothing.             *)
Tick ==
    \E d \in TickSteps :
        /\ pc \in {"idle", "rl_wait"}
        /\ spc \in {"off", "tool"}
        /\ requests # <<>> \/ session.token_expires # <<>>
        /\ ClockOK(now + d)
        /\ now' = now + d
        /\ UNCHANGED <<config, requests, lim, clientVars, serverVars>>

----------------------------------------------------------------------------
(* PwnDocClient._request (client.py 355-407), one action per step.         *)

RECURSIVE Pow2(_)
Pow2(n) == IF n = 0 THEN 1 ELSE 2 * Pow2(n - 1)

Backoff_constant(c, i) == c.retry_delay

(* time.sleep(retry_delay * 2**attempt) after a failed attempt. *)
Backoff(c, i) == c.retry_delay * Pow2(i)

(* The sleep after the transport failure of attempt i: none after the last. *)
BackoffSleep(c, i) ==
    IF i < c.max_retries - 1 THEN <<Backoff(c, i)>> ELSE <<>>

RecordError_first(prev, e) == IF prev = None THEN e ELSE prev

(* last_error = e *)
RecordError(prev, e) == e

(* int(response.headers.get("Retry-After", 60)); <<>> when int() raises. *)
RetryAfter(x) ==
    IF x = "absent" THEN <<DefaultRetryAfter>>
    ELSE IF x = "30" THEN <<30>>
    ELSE <<>>

(* raise PwnDocError("Request failed after N retries: last_error") *)
RetriesExhausted(c, err) ==
    Raise("PwnDocError", "request_failed", c.max_retries, err)

(* The call starts: _ensure_authenticated(). *)
ExecStart ==
    /\ pc = "idle"
    /\ spc = "off" \/ (spc = "tool" /\ call = "none" /\ client_created)
    /\ calls < MaxCalls
    /\ calls' = calls + 1
    /\ call' = "request"
    /\ \E in \in AuthInputs(session, config) :
        LET a == ensure_authenticated(session, now, config, in) IN
        /\ session' = a.session
        /\ net' = a.net
        /\ netst' = NetStatus(in, a.net)
        /\ IF a.exc # None
           THEN /\ pc' = "done"
                /\ outcome' = Raise(a.exc, a.msg, 0, None)
           ELSE /\ pc' = "ratelimit"
                /\ outcome' = NoOutcome
    /\ UNCHANGED <<config, now, requests, lim, attempt, headers, last_error,
                   trace, answer, reauths, slots>>
    /\ UNCHANGED serverVars

(* _wait_for_rate_limit: one evaluation of the loop condition; on success  *)
(* the headers are built and the retry loop is entered.                    *)
WaitAcquire ==
    /\ pc = "ratelimit"
    /\ LET r == acquire(requests, now, config.rate_limit_requests,
                        config.rate_limit_period) IN
        /\ requests' = r.requests
        /\ IF r.ret
           THEN /\ slots' = slots + 1
                /\ headers' = get_headers(session)
                /\ IF config.max_retries = 0
                   THEN /\ pc' = "done"
                        /\ outcome' = RetriesExhausted(config, last_error)
                   ELSE /\ pc' = "attempt"
                        /\ outcome' = outcome
           ELSE /\ pc' = "rl_wait"
                /\ UNCHANGED <<slots, headers, outcome>>
    /\ UNCHANGED <<config, now, lim, session, attempt, last_error, trace,
                   answer, reauths, net, netst, call, calls>>
    /\ UNCHANGED serverVars

(* time.sleep(w) suspends for at least w: the clock reads w later, or     *)
(* more.                                                                   *)
Oversleep == {0, 1}

(* _wait_for_rate_limit: the loop body, wait_time() and time.sleep().      *)
(* time.sleep() raises ValueError for a negative duration.                 *)
WaitSleep ==
    /\ pc = "rl_wait"
    /\ LET w == wait_time(requests, now, config.rate_limit_requests,
                          config.rate_limit_period) IN
        IF w < 0
        THEN /\ pc' = "done"
             /\ outcome' = Raise("ValueError", "sleep length", w, None)
             /\ now' = now
        ELSE /\ \E over \in Oversleep :
                /\ ClockOK(now + w + over)
                /\ now' = now + w + over
             /\ pc' = "ratelimit"
             /\ outcome' = outcome
    /\ UNCHANGED <<config, requests, lim, session, attempt, headers,
                   last_error, trace, answer, reauths, net, netst, slots, call,
                   calls>>
    /\ UNCHANGED serverVars

(* What the model remembers of one HTTP attempt: the status answered (0   *)
(* for a transport failure), the Authorization token sent, and the backoff *)
(* sleep that followed (<<>> for none).                                    *)
TraceEntry(resp, auth, slept) ==
    [status |-> resp.status, auth |-> auth, slept |-> slept]

Final_404_generic(resp) ==
    IF resp.status = 200
    THEN Outcome("return", None, IF resp.x = "json" THEN "json" ELSE "raw",
                 200, None)
    ELSE Raise("PwnDocError", "api_error", resp.status, None)

(* A mapping that takes every 2xx status for a success. *)
Final_any_2xx(resp) ==
    IF resp.status \in 200..299
    THEN Outcome("return", None, IF resp.x = "json" THEN "json" ELSE "raw",
                 200, None)
    ELSE IF resp.status = 404
    THEN Raise("NotFoundError", "not_found", 404, None)
    ELSE IF resp.status = 429
    THEN IF RetryAfter(resp.x) = <<>>
         THEN Raise("ValueError", "invalid literal for int()", 0, None)
         ELSE Raise("RateLimitError", "rate_limited", RetryAfter(resp.x)[1],
                    None)
    ELSE Raise("PwnDocError", "api_error", resp.status, None)

(* The status mapping of one answered attempt that ends the call. *)
Final(resp) ==
    IF resp.status = 200
    THEN Outcome("return", None, IF resp.x = "json" THEN "json" ELSE "raw",
                 200, None)
    ELSE IF resp.status = 404
    THEN Raise("NotFoundError", "not_found", 404, None)
    ELSE IF resp.status = 429
    THEN IF RetryAfter(resp.x) = <<>>
         THEN Raise("ValueError", "invalid literal for int()", 0, None)
         ELSE Raise("RateLimitError", "rate_limited", RetryAfter(resp.x)[1],
                    None)
    ELSE Raise("PwnDocError", "api_error", resp.status, None)

HasNext_one_short(c, i) == i + 1 < c.max_retries - 1

(* for attempt in range(max_retries): is there an iteration after i? *)
HasNext(c, i) == i + 1 < c.max_retries

BearerAfterRefresh_stale(hdr, sess) == hdr

(* headers["Authorization"] = f"Bearer {self._token}" after a 401 *)
BearerAfterRefresh(hdr, sess) == sess.token

(* After an iteration that did not return: the next one, or the raise      *)
(* after the loop.                                                         *)
LoopOn(err) ==
    /\ attempt' = attempt + 1
    /\ last_error' = err
    /\ IF HasNext(config, attempt)
       THEN /\ pc' = "attempt"
            /\ outcome' = outcome
       ELSE /\ pc' = "done"
            /\ outcome' = RetriesExhausted(config, err)

(* One iteration of the retry loop: the HTTP call and what follows it. *)
SessionAfterAnswer_drops_token(sess, resp) ==
    IF resp.t = "err" THEN [sess EXCEPT !.token = None] ELSE sess

(* The session after an attempt that failed at transport level or was      *)
(* answered with a status other than 401: no branch assigns to it.         *)
SessionAfterAnswer(sess, resp) == sess

Attempt ==
    /\ pc = "attempt"
    /\ \E resp \in UpstreamResponses :
        /\ answer' = resp
        /\ \/ /\ resp.t = "err"
              /\ LET sl == BackoffSleep(config, attempt) IN
                  /\ trace' = Append(trace, TraceEntry(resp, headers, sl))
                  /\ IF sl = <<>> THEN now' = now
                     ELSE ClockOK(now + sl[1]) /\ now' = now + sl[1]
              /\ LoopOn(RecordError(last_error, resp.x))
              /\ session' = SessionAfterAnswer(session, resp)
              /\ UNCHANGED <<headers, reauths, net, netst>>
           \/ /\ resp.t = "http" /\ resp.status = 401
              /\ \E in \in AuthInputs(session, config) :
                  LET a == refresh_authentication(session, now, config, in) IN
                  /\ trace' = Append(trace, TraceEntry(resp, headers, <<>>))
                  /\ reauths' = reauths + 1
                  /\ net' = a.net
                  /\ netst' = NetStatus(in, a.net)
                  /\ session' = a.session
                  /\ IF a.exc # None
                     THEN /\ pc' = "done"
                          /\ outcome' = Raise(a.exc, a.msg, 0, None)
                          /\ UNCHANGED <<attempt, headers, last_error>>
                     ELSE /\ headers' = BearerAfterRefresh(headers, a.session)
                          /\ LoopOn(last_error)
              /\ now' = now
           \/ /\ resp.t = "http" /\ resp.status # 401
              /\ trace' = Append(trace, TraceEntry(resp, headers, <<>>))
              /\ pc' = "done"
              /\ outcome' = Final(resp)
              /\ session' = SessionAfterAnswer(session, resp)
              /\ UNCHANGED <<now, attempt, headers, last_error, reauths, net,
                             netst>>
    /\ UNCHANGED <<config, requests, lim, slots, call, calls>>
    /\ UNCHANGED serverVars

(* A direct call of authenticate(), as the server does on first use;      *)
(* answer keeps what the login endpoint answered.                          *)
CallAuthenticate ==
    /\ pc = "idle"
    /\ spc = "off"
    /\ calls < MaxCalls
    /\ calls' = calls + 1
    /\ call' = "authenticate"
    /\ \E in \in AuthInputs(session, config) :
        LET a == authenticate(session, now, config, in) IN
        /\ session' = a.session
        /\ net' = a.net
        /\ netst' = NetStatus(in, a.net)
        /\ answer' = Resp(in.login.t, in.login.status, in.login.x)
        /\ outcome' = IF a.exc # None THEN Raise(a.exc, a.msg, 0, None)
                      ELSE Outcome("return", None, "True", 0, None)
    /\ pc' = "done"
    /\ UNCHANGED <<config, now, requests, lim, attempt, headers, last_error,
                   trace, reauths, slots>>
    /\ UNCHANGED serverVars

(* The call has returned or raised; the client is ready for the next one. *)
Return ==
    /\ pc = "done"
    /\ spc = "off"
    /\ pc' = "idle"
    /\ call' = "none"
    /\ outcome' = NoOutcome
    /\ attempt' = 0
    /\ headers' = None
    /\ last_error' = None
    /\ trace' = <<>>
    /\ answer' = NoResp
    /\ reauths' = 0
    /\ net' = <<>>
    /\ netst' = <<>>
    /\ slots' = 0
    /\ UNCHANGED <<config, now, requests, lim, session, calls>>
    /\ UNCHANGED serverVars

(* A client: every setting varies but the period of its rate limiter. *)
InitClient ==
    /\ Init
    /\ config.rate_limit_period = ClientPeriod

Next == ExecStart \/ WaitAcquire \/ WaitSleep \/ Attempt \/ CallAuthenticate
           \/ Return \/ Tick

Spec == InitClient /\ [][Next]_vars

----------------------------------------------------------------------------
(* Claims about _request.  A state belongs to a _request call while        *)
(* call = "request"; the call has ended when pc = "done".                  *)

InRequest == call = "request"
Ended == InRequest /\ pc = "done"

AllAnswered(st) == \A i \in DOMAIN trace : trace[i].status = st
Count401 == Cardinality({i \in DOMAIN trace : trace[i].status = 401})
ReauthOK == outcome.exc # "AuthenticationError"

RECURSIVE SleptFrom(_)
SleptFrom(i) ==
    IF i > Len(trace) THEN 0
    ELSE (IF trace[i].slept = <<>> THEN 0 ELSE trace[i].slept[1])
         + SleptFrom(i + 1)
TotalSlept == SleptFrom(1)
SleepCount == Cardinality({i \in DOMAIN trace : trace[i].slept # <<>>})

(* The case of C5: the first attempt was answered 401, the re-authentication *)
(* succeeded, and the upstream answered 200 to whatever was sent next.     *)
C5_Case ==
    /\ Ended
    /\ Len(trace) >= 1 /\ trace[1].status = 401
    /\ ReauthOK
    /\ \A i \in 2..Len(trace) : trace[i].status = 200

C5_Holds ==
    /\ Len(trace) = 2
    /\ Len(trace) <= config.max_retries
    /\ reauths = 1
    /\ trace[2].auth = session.token
    /\ (config.userpass => trace[2].auth # trace[1].auth)
    /\ outcome.kind = "return"

\* C5 as stated: for every max_retries >= 1, a first attempt answered 401
\* with an upstream that accepts the renewed token leads to exactly one
\* refresh_authentication(), a re-sent request carrying the new token, and
\* success.
C5_Original == (C5_Case /\ config.max_retries >= 1) => C5_Holds

\* C5 amended: the same, for every max_retries >= 2.
C5_RefreshOnceThenSuccess == (C5_Case /\ config.max_retries >= 2) => C5_Holds

\* C5 witness: a call that was answered 401, logged in again and succeeded
\* with the newly issued token.
C5_Witness ==
    /\ C5_Case /\ config.max_retries >= 2 /\ config.userpass
    /\ trace[1].auth = "jwt1" /\ trace[2].auth = "jwt2"
    /\ outcome.kind = "return"

\* C6: when every attempt is answered 401 and re-authentication keeps
\* succeeding, each attempt is followed by one refresh_authentication(), the
\* loop goes on while budget remains, and the call ends after exactly
\* max_retries attempts with an error.
C6_Always401Exhausts ==
    (InRequest /\ Len(trace) >= 1 /\ AllAnswered(401) /\ ReauthOK) =>
        /\ reauths = Len(trace)
        /\ Len(trace) <= config.max_retries
        /\ (Len(trace) < config.max_retries => pc = "attempt")
        /\ (Len(trace) = config.max_retries =>
                /\ pc = "done"
                /\ outcome.kind = "raise"
                /\ outcome.exc = "PwnDocError"
                /\ outcome.tag = "request_failed")

\* C6 witness: three attempts, all answered 401, three re-authentications,
\* and the call has ended with the error.
C6_Witness ==
    /\ Ended /\ AllAnswered(401) /\ ReauthOK
    /\ config.max_retries = 3 /\ Len(trace) = 3 /\ reauths = 3
    /\ outcome.kind = "raise"

\* C7: when every attempt fails at transport level, the call makes exactly
\* max_retries attempts and then raises the "Request failed after N
\* retries" error that carries the error of the last attempt.
C7_TransportFailureWrapsLast ==
    (InRequest /\ Len(trace) >= 1 /\ AllAnswered(0)) =>
        /\ Len(trace) <= config.max_retries
        /\ (Len(trace) < config.max_retries => pc = "attempt")
        /\ (Len(trace) = config.max_retries =>
                /\ pc = "done"
                /\ outcome = Raise("PwnDocError", "request_failed",
                                   config.max_retries, answer.x))

\* C7 witness: two attempts that failed with different errors; the call
\* ended with the second one.
C7_Witness ==
    /\ Ended /\ AllAnswered(0) /\ Len(trace) >= 2
    /\ outcome.err = "timeout" /\ answer.x = "timeout"
    /\ outcome.tag = "request_failed"

\* C8: the transport failure of attempt i (zero-based) is followed by a
\* sleep of retry_delay * 2^i when i < max_retries - 1 and by no sleep
\* after the last attempt; a call whose attempts all fail sleeps
\* max_retries - 1 times, retry_delay * (2^(max_retries-1) - 1) in total.
C8_ExponentialBackoff ==
    InRequest =>
        /\ \A k \in DOMAIN trace :
              trace[k].status = 0 =>
                 trace[k].slept =
                    IF k - 1 < config.max_retries - 1
                    THEN <<config.retry_delay * 2^(k - 1)>>
                    ELSE <<>>
        /\ (pc = "done" /\ Len(trace) >= 1 /\ AllAnswered(0)) =>
              /\ SleepCount = config.max_retries - 1
              /\ TotalSlept =
                    config.retry_delay * (2^(config.max_retries - 1) - 1)

\* C8 witness: a call with max_retries = 3 and retry_delay = 2 whose attempts
\* all failed, having slept 2 and then 4 seconds.
C8_Witness ==
    /\ Ended /\ AllAnswered(0)
    /\ config.max_retries = 3 /\ config.retry_delay = 2
    /\ Len(trace) = 3
    /\ trace[1].slept = <<2>> /\ trace[2].slept = <<4>>
    /\ trace[3].slept = <<>>

\* C9 as stated: a call records one rate-window timestamp per HTTP attempt
\* it issues, retried attempts included.
C9_SlotPerAttempt ==
    (InRequest /\ Len(trace) >= 1) => slots = Len(trace)

EndingStatuses == {404, 500}

\* C10: an attempt answered 404 ends the call at once with NotFoundError,
\* one answered with another non-2xx status (not 401, not 429) ends it at
\* once with the "API error: status" PwnDocError; no attempt, sleep or
\* re-authentication follows, whatever retry budget remains.
C10_NoRetryOnStatus ==
    InRequest =>
        \A k \in DOMAIN trace :
            trace[k].status \in EndingStatuses =>
                /\ k = Len(trace)
                /\ pc = "done"
                /\ trace[k].slept = <<>>
                /\ reauths = Count401
                /\ outcome =
                     IF trace[k].status = 404
                     THEN Raise("NotFoundError", "not_found", 404, None)
                     ELSE Raise("PwnDocError", "api_error", trace[k].status,
                                None)

\* C10 witness: the first attempt of a call with budget for three was
\* answered 404 and the call has ended with NotFoundError.
C10_Witness ==
    /\ Ended /\ config.max_retries = 3
    /\ Len(trace) = 1 /\ trace[1].status = 404
    /\ outcome.exc = "NotFoundError"

\* C11: an attempt answered 429 ends the call at once with RateLimitError
\* carrying the Retry-After value in seconds (60 when the header is absent),
\* with no further attempt and no sleep.
C11_RateLimitedAt429 ==
    (Ended /\ answer.t = "http" /\ answer.status = 429) =>
        /\ trace[Len(trace)].status = 429
        /\ trace[Len(trace)].slept = <<>>
        /\ outcome.kind = "raise"
        /\ outcome.exc = "RateLimitError"
        /\ outcome.code = (IF answer.x = "absent" THEN DefaultRetryAfter
                           ELSE 30)

\* C20: with username and password set, authenticate() uses the login
\* endpoint, also when a static token is configured: a login answered 200
\* makes the token it issued the session token, and a rejected or
\* unreachable login raises AuthenticationError and does not return with
\* the static token.
C20_LoginHasPriority ==
    (call = "authenticate" /\ pc = "done" /\ config.userpass) =>
        /\ net = <<"login">>
        /\ answer.t # "none"
        /\ (answer.t = "http" /\ answer.status = 200) =>
              /\ outcome.kind = "return"
              /\ session.token \in {"jwt1", "jwt2"}
              /\ session.token_expires = <<now + TokenLifetime>>
        /\ (answer.t = "http" /\ answer.status # 200) =>
              /\ outcome.kind = "raise"
              /\ outcome.exc = "AuthenticationError"
              /\ outcome.tag = "Authentication failed"
        /\ answer.t = "err" =>
              /\ outcome.kind = "raise"
              /\ outcome.exc = "AuthenticationError"
              /\ outcome.tag = "Connection error"

\* C20 witness: both methods are configured, the login was rejected and
\* authenticate() raised AuthenticationError.
C20_Witness ==
    /\ call = "authenticate" /\ pc = "done"
    /\ config.userpass /\ config.token
    /\ answer.t = "http" /\ answer.status = 401
    /\ net = <<"login">>
    /\ outcome.exc = "AuthenticationError"

\* C21: when authenticate() with username and password returns (the login
\* endpoint answered 200), is_authenticated is true right after it and the
\* token expires exactly one hour after the time of the call: the session
\* still counts as authenticated one second before that and no longer at it.
C21_LoginSetsExpiry ==
    (/\ call = "authenticate" /\ pc = "done"
     /\ config.userpass
     /\ outcome.kind = "return") =>
        /\ answer.status = 200
        /\ session.token # None
        /\ session.token_expires # <<>>
        /\ session.token_expires[1] = now + TokenLifetime
        /\ is_authenticated(session, now)
        /\ is_authenticated(session, now + TokenLifetime - 1)
        /\ ~is_authenticated(session, now + TokenLifetime)

\* C21 witness: a login made as the second call of the client, after a
\* long idle time, returned and set the expiry to one hour after it.
C21_Witness ==
    /\ call = "authenticate" /\ pc = "done"
    /\ config.userpass
    /\ outcome.kind = "return"
    /\ calls = 2
    /\ now >= LongIdle
    /\ session.token_expires = <<now + TokenLifetime>>
    /\ is_authenticated(session, now)

\* C22: with only a static token configured, authenticate() returns without
\* a network call, and in every reachable state the session token is the
\* configured token while token expiry and refresh token are unset: the
\* session stays authenticated and neither the login nor the refresh
\* endpoint is ever called, also after a 401.
C22_StaticTokenOnly ==
    (config.token /\ ~config.userpass) =>
        /\ session = [token |-> "static", token_expires |-> <<>>,
                      refresh_token |-> None]
        /\ is_authenticated(session, now)
        /\ net = <<>>
        /\ (call = "authenticate" /\ pc = "done") => outcome.kind = "return"
        /\ outcome.exc # "AuthenticationError"
        /\ \A i \in DOMAIN trace : trace[i].auth = "static"

\* C22 witness: with only a static token, a request answered 401 and then
\* 200 returned; both attempts sent the static token and no endpoint of
\* the session was called.
C22_Witness ==
    /\ config.token /\ ~config.userpass
    /\ Ended
    /\ Len(trace) = 2
    /\ trace[1].status = 401 /\ trace[2].status = 200
    /\ trace[2].auth = "static"
    /\ reauths = 1
    /\ net = <<>>
    /\ outcome.kind = "return"

(* A step in which a session operation runs: the start of a call, or an  *)
(* attempt answered 401.                                                   *)
SessionStep ==
    \/ pc = "idle" /\ calls' = calls + 1
    \/ pc = "attempt" /\ answer'.t = "http" /\ answer'.status = 401

\* C23: refresh() with a refresh token held calls the refresh endpoint; on
\* a 200 it replaces the token, sets the expiry to now + 1 hour and does not
\* call authenticate(); on any other answer or a transport error it makes
\* exactly one full authenticate() and ends as that call ends.
C23_RefreshThenFallback ==
    [][SessionStep =>
          /\ (pc = "attempt" /\ session.refresh_token # None) =>
                (net' # <<>> /\ net'[1] = "refresh")
          /\ (net' # <<>> /\ net'[1] = "refresh") =>
                /\ session.refresh_token # None
                /\ netst'[1] = 200 =>
                      /\ net' = <<"refresh">>
                      /\ session'.token \notin {None, session.token}
                      /\ session'.token_expires = <<now + TokenLifetime>>
                      /\ session'.refresh_token = session.refresh_token
                      /\ outcome'.exc # "AuthenticationError"
                /\ netst'[1] # 200 =>
                      /\ net' = <<"refresh", "login">>
                      /\ netst'[2] = 200 =>
                            /\ session'.token \notin {None, session.token}
                            /\ session'.token_expires
                                 = <<now + TokenLifetime>>
                            /\ outcome'.exc # "AuthenticationError"
                      /\ netst'[2] # 200 =>
                            /\ session' = session
                            /\ pc' = "done"
                            /\ outcome'.exc = "AuthenticationError"]_vars

\* C23 witness: a 401 made the client refresh; the refresh endpoint was
\* unreachable, one login followed and was answered 200, and the retried
\* attempt went out with the new token.
C23_Witness ==
    /\ InRequest
    /\ reauths = 1
    /\ net = <<"refresh", "login">>
    /\ netst = <<0, 200>>
    /\ Len(trace) = 2
    /\ trace[1].status = 401
    /\ trace[2].auth = session.token
    /\ trace[2].auth # trace[1].auth

\* C24: at the start of a request, _ensure_authenticated() makes no network
\* call and leaves the session as it is when a token is set and its expiry
\* is unset or strictly in the future; otherwise it calls refresh() when a
\* refresh token is held and authenticate() when none is.
C24_EnsureAuthenticated ==
    [][(pc = "idle" /\ call' = "request" /\ calls' = calls + 1) =>
          LET valid == /\ session.token # None
                       /\ \/ session.token_expires = <<>>
                          \/ now < session.token_expires[1]
          IN
          /\ valid =>
                /\ session' = session
                /\ net' = <<>>
                /\ pc' = "ratelimit"
          /\ (~valid /\ session.refresh_token # None) =>
                (net' # <<>> /\ net'[1] = "refresh")
          /\ (~valid /\ session.refresh_token = None) =>
                /\ config.userpass => net' = <<"login">>
                /\ ~config.userpass =>
                      /\ net' = <<>>
                      /\ pc' = "done"
                      /\ outcome'.exc = "AuthenticationError"]_vars

\* C24 witness: the second request of a client started after its token had
\* expired; the refresh endpoint was called, answered 200, and the request
\* went on to the rate limiter.
C24_Witness ==
    /\ InRequest
    /\ calls = 2
    /\ pc = "ratelimit"
    /\ now >= LongIdle
    /\ net = <<"refresh">>
    /\ netst = <<200>>
    /\ session.token_expires = <<now + TokenLifetime>>

\* C25: the session (token, expiry, refresh token) changes only in a step
\* that runs authenticate() or refresh() and calls an endpoint: the
\* rate-limit wait, a 200, 404, 429 or other-status answer, a transport
\* failure and its backoff, and the passing of time leave it unchanged; and
\* a token, once set, is never unset.
C25_SessionFrame ==
    [][/\ session' # session => (SessionStep /\ net' # <<>>)
       /\ pc \in {"ratelimit", "rl_wait"} => session' = session
       /\ (pc = "attempt" /\ ~(answer'.t = "http" /\ answer'.status = 401))
             => session' = session
       /\ session.token # None => session'.token # None]_vars

\* C25 witness: a request of a logged-in client went through a transport
\* failure with its backoff sleep and then a 429, and the session is still
\* the one the login left.
C25_Witness ==
    /\ Ended
    /\ Len(trace) = 2
    /\ trace[1].status = 0 /\ trace[1].slept # <<>>
    /\ trace[2].status = 429
    /\ trace[1].auth = session.token
    /\ session.token \in {"jwt1", "jwt2"}
    /\ session.token_expires # <<>>

(* C30: the rate-limit wait of a request is left only by an acquire() that *)
(* returns True and records the slot, and no HTTP attempt of the request   *)
(* is made while it waits.                                                 *)
C30_WaitEndsByAcquire ==
    /\ [](pc \in {"ratelimit", "rl_wait"} => trace = <<>>)
    /\ [][(pc \in {"ratelimit", "rl_wait"}
            /\ pc' \notin {"ratelimit", "rl_wait"})
          => (/\ pc = "ratelimit"
              /\ slots' = slots + 1
              /\ requests' # <<>>
              /\ requests'[Len(requests')] = now
              /\ (pc' = "done" => outcome'.exc # "ValueError"))]_vars

(* C31: when the wait loop has slept exactly the duration wait_time()      *)
(* returned after a failed acquire(), the acquire() that follows succeeds. *)
C31_AcquireAfterWait ==
    [][(/\ pc = "rl_wait"
        /\ pc' = "ratelimit"
        /\ now' = now + wait_time(requests, now, config.rate_limit_requests,
                                  config.rate_limit_period))
        => acquire(requests', now', config.rate_limit_requests,
                   config.rate_limit_period).ret]_vars

(* C32: a request returns a result exactly when one of its attempts was    *)
(* answered 200; that attempt is its last one, and the result is the       *)
(* parsed body for a JSON body and the raw-text wrapper for any other      *)
(* body, never an error.  Every other ending, a 204 answer included, is a  *)
(* raised error.                                                           *)
C32_SuccessIffStatus200 ==
    Ended =>
        /\ outcome.kind \in {"return", "raise"}
        /\ outcome.kind = "return"
             <=> (\E i \in DOMAIN trace : trace[i].status = 200)
        /\ \A i \in DOMAIN trace : trace[i].status = 200 => i = Len(trace)
        /\ outcome.kind = "return"
             => /\ outcome.exc = None
                /\ answer.status = 200
                /\ outcome.tag = (IF answer.x = "json" THEN "json" ELSE "raw")
        /\ outcome.kind = "raise" => outcome.exc # None
        /\ (trace # <<>> /\ trace[Len(trace)].status = 204)
             => (outcome.kind = "raise" /\ outcome.exc = "PwnDocError")

(* A request whose first attempt failed at transport level and whose       *)
(* second was answered 200 with a body that is not JSON returned the       *)
(* raw-text wrapper.                                                       *)
C32_Witness ==
    /\ Ended
    /\ Len(trace) = 2
    /\ trace[1].status = 0
    /\ trace[2].status = 200
    /\ answer.x = "text"
    /\ outcome.kind = "return"
    /\ outcome.tag = "raw"

(* C33: with username, password and a static token all configured, no      *)
(* attempt of a request carries the static token, and while a request      *)
(* makes its attempts the session token is one the upstream issued.        *)
C33_NoStaticBearer ==
    (config.userpass /\ config.token) =>
        /\ \A i \in DOMAIN trace : trace[i].auth # "static"
        /\ (InRequest /\ pc = "attempt") => session.token \in {"jwt1", "jwt2"}

(* C34: whenever a request is about to send an HTTP attempt, its token has *)
(* no expiry or an expiry that lies in the future.                         *)
C34_NoExpiredTokenSent ==
    (InRequest /\ pc = "attempt" /\ session.token # None) =>
        \/ session.token_expires = <<>>
        \/ now < session.token_expires[1]

(* An attempt of a request is answered 401 in this step. *)
Answered401 ==
    /\ InRequest
    /\ pc = "attempt"
    /\ answer'.t = "http"
    /\ answer'.status = 401

(* C35: when an attempt is answered 401 and the re-authentication fails    *)
(* (the last endpoint it called did not answer 200), the request ends in   *)
(* that step with AuthenticationError: the loop counter does not advance,  *)
(* the session is what it was before the re-authentication, and nothing    *)
(* but the return of the call follows, whatever retry budget is left.      *)
C35_FailedReauthEndsCall ==
    /\ [][Answered401 =>
            /\ (netst' # <<>> /\ netst'[Len(netst')] # 200)
                 <=> outcome'.exc = "AuthenticationError"
            /\ outcome'.exc = "AuthenticationError"
                 => /\ pc' = "done"
                    /\ outcome'.kind = "raise"
                    /\ session' = session
                    /\ attempt' = attempt
                    /\ headers' = headers
                    /\ Len(trace') = Len(trace) + 1]_vars
    /\ [][(Ended /\ outcome.exc = "AuthenticationError")
            => (pc' \in {"done", "idle"} /\ trace' \in {trace, <<>>}
                /\ session' = session)]_vars
    /\ [](Ended /\ outcome.exc = "AuthenticationError" /\ trace # <<>>
            => trace[Len(trace)].status = 401)

(* The first attempt of a request with three retries was answered 401, the *)
(* refresh endpoint and then the login endpoint refused, and the request   *)
(* ended with AuthenticationError with two iterations unused and the       *)
(* session as it was.                                                      *)
C35_Witness ==
    /\ Ended
    /\ config.max_retries = 3
    /\ Len(trace) = 1
    /\ trace[1].status = 401
    /\ attempt = 0
    /\ net = <<"refresh", "login">>
    /\ netst = <<401, 401>>
    /\ outcome.exc = "AuthenticationError"
    /\ session.token = trace[1].auth
    /\ session.refresh_token = "rt"

----------------------------------------------------------------------------
(* Direct use of a RateLimiter.  lim holds the latest call: its name, its   *)
(* return value, the window before it and the time it was made at.         *)

LimAcquire ==
    LET r == acquire(requests, now, config.rate_limit_requests,
                     config.rate_limit_period) IN
    /\ pc = "idle"
    /\ requests' = r.requests
    /\ lim' = [op |-> "acquire", ret |-> r.ret, before |-> requests,
               at |-> now]
    /\ UNCHANGED <<config, now, clientVars>>
    /\ UNCHANGED serverVars

LimWaitTime ==
    /\ pc = "idle"
    /\ lim' = [op |-> "wait_time",
               ret |-> wait_time(requests, now, config.rate_limit_requests,
                                 config.rate_limit_period),
               before |-> requests, at |-> now]
    /\ UNCHANGED <<config, now, requests, clientVars>>
    /\ UNCHANGED serverVars

NextLimiter == LimAcquire \/ LimWaitTime \/ Tick

(* A RateLimiter on its own: the client's other settings play no part. *)
InitLimiter ==
    /\ Init
    /\ config.userpass = FALSE /\ config.token = FALSE
    /\ config.max_retries = 0
    /\ config.retry_delay = 1

SpecLimiter == InitLimiter /\ [][NextLimiter]_vars

----------------------------------------------------------------------------
\* C1: immediately after each successful acquire() the number of recorded
\* timestamps younger than `period` seconds is at most max_requests.
C1_WindowBounded ==
    (lim.op = "acquire" /\ lim.ret = TRUE) =>
        Younger(requests, now, config.rate_limit_period)
            <= config.rate_limit_requests

\* C1 witness: a successful acquire(), made later than the timestamp it
\* joins, that fills the window to capacity with young timestamps.
C1_Witness ==
    /\ lim.op = "acquire" /\ lim.ret = TRUE
    /\ Len(requests) = config.rate_limit_requests
    /\ Len(requests) >= 2
    /\ requests[1] < now
    /\ Younger(requests, now, config.rate_limit_period) = Len(requests)

(* The timestamps of a window that are not older than period at time t. *)
NotOlder(reqs, t, period) ==
    LET Keep(ts) == t - ts <= period IN SelectSeq(reqs, Keep)

\* C17: acquire() returns true and records the current time exactly when,
\* after discarding the timestamps older than period, fewer than
\* max_requests remain; when it returns false the window is exactly what it
\* was before the call.
C17_AcquireFrame ==
    lim.op = "acquire" =>
        LET kept == NotOlder(lim.before, lim.at, config.rate_limit_period) IN
        /\ lim.ret = (Len(kept) < config.rate_limit_requests)
        /\ lim.ret => requests = Append(kept, lim.at)
        /\ ~lim.ret => requests = lim.before

\* C17 witness: an acquire() made later than the oldest recorded timestamp
\* returned false and left the full window as it was.
C17_Witness ==
    /\ lim.op = "acquire" /\ lim.ret = FALSE
    /\ lim.before # <<>>
    /\ lim.at > lim.before[1]
    /\ lim.at = now
    /\ requests = lim.before
    /\ Len(requests) = config.rate_limit_requests

\* C18: wait_time() prunes like acquire() and is never negative: 0 when,
\* after discarding the timestamps older than period, fewer than
\* max_requests remain, and oldest + period - now otherwise.
C18_WaitTimeNonNegative ==
    lim.op = "wait_time" =>
        LET kept == NotOlder(lim.before, lim.at, config.rate_limit_period) IN
        /\ lim.ret >= 0
        /\ lim.ret = IF Len(kept) < config.rate_limit_requests THEN 0
                     ELSE kept[1] + config.rate_limit_period - lim.at

\* C19: on a fresh RateLimiter with max_requests = N and period = P, the
\* acquire() calls made at the same instant return true while fewer than N
\* were made and false from the (N+1)-th on, and wait_time() called right
\* after a refused one is positive and at most P.
C19_BurstThenRefuse ==
    now = 0 =>
        /\ Len(requests) <= config.rate_limit_requests
        /\ \A i \in DOMAIN requests : requests[i] = 0
        /\ lim.op = "acquire" =>
              /\ lim.ret = (Len(lim.before) < config.rate_limit_requests)
              /\ lim.ret => Len(requests) = Len(lim.before) + 1
              /\ ~lim.ret => Len(requests) = config.rate_limit_requests
        /\ (lim.op = "wait_time"
                /\ Len(requests) = config.rate_limit_requests) =>
              /\ lim.ret > 0
              /\ lim.ret <= config.rate_limit_period

\* C19 witness: the spec's case scaled down (N = 2): two acquires went
\* through at time 0, and wait_time() on the full window returned the
\* period.
C19_Witness ==
    /\ now = 0
    /\ config.rate_limit_requests = 2
    /\ requests = <<0, 0>>
    /\ lim.op = "wait_time"
    /\ lim.before = <<0, 0>>
    /\ lim.ret = config.rate_limit_period

----------------------------------------------------------------------------
(* JSON-RPC messages (server.py 1764-1796).  A JSON value carries its type *)
(* as a tag, so that the string "1" and the number 1 differ.               *)

JNull == <<"null", 0>>
JStr(v) == <<"str", v>>
JNum(n) == <<"num", n>>
JAbsent == <<"absent", 0>>         \* the key is not in the object

Ids == {JAbsent, JNull, JStr("abc"), JNum(1)}

Handlers == {"initialize", "initialized", "tools/list", "tools/call", "ping"}

(* A method of the table, one outside it, and no method at all. *)
Methods == Handlers \cup {"notifications/initialized", None}

(* params: an object (with the name and the arguments of a tool call, when *)
(* it has them) or a JSON value that is not an object.                     *)
Params(kind, name, args) == [kind |-> kind, name |-> name, args |-> args]

NoParams == Params("object", None, "ok")

ParamsOf(method) ==
    IF method = "tools/call"
    THEN {Params("object", n, a) :
            n \in {"list_audits", "no_such_tool", None},
            a \in {"ok", "bad"}} \cup {Params("array", None, "ok")}
    ELSE {NoParams, Params("array", None, "ok")}

Msg(id, method, params) == [id |-> id, method |-> method, params |-> params]

Messages == UNION {{Msg(i, m, p) : i \in Ids, p \in ParamsOf(m)} : m \in Methods}

(* message.get("id"): None when the key is absent or null. *)
MsgId(m) == IF m.id = JAbsent THEN JNull ELSE m.id

ResultResponse(id, result) ==
    [jsonrpc |-> "2.0", id |-> id, result |-> result]

ErrorResponse_null_id(id, code, text) ==
    [jsonrpc |-> "2.0", id |-> JNull, error |-> [code |-> code, message |-> text]]

ErrorResponse(id, code, text) ==
    [jsonrpc |-> "2.0", id |-> id, error |-> [code |-> code, message |-> text]]

(* What a handler did: returned a value (<<>> for None) or raised. *)
Returned(v) == [ret |-> <<v>>, exc |-> None, text |-> ""]
ReturnedNone == [ret |-> <<>>, exc |-> None, text |-> ""]
Raised(exc, text) == [ret |-> <<>>, exc |-> exc, text |-> text]

EmptyObject == <<>>                \* the JSON object {}

handle_initialize ==
    Returned([protocolVersion |-> "2024-11-05",
              capabilities |-> [tools |-> [listChanged |-> TRUE],
                                logging |-> EmptyObject],
              serverInfo |-> [name |-> "pwndoc-mcp-server"]])

handle_list_tools(tls) ==
    Returned([tools |-> [i \in DOMAIN tls |-> [name |-> tls[i].name]]])

TextContent(text) == <<[type |-> "text", text |-> text]>>

(* _handle_call_tool reaches the call of tool.handler. *)
CallsHandler(params, tls) ==
    /\ params.kind = "object"
    /\ params.name \in ToolNames(tls)

(* _handle_call_tool up to the call of the handler: TRUE when the handler  *)
(* is entered, that is when the call binds the arguments.                  *)
EntersHandler(params, tls) ==
    /\ CallsHandler(params, tls)
    /\ params.args = "ok"

call_tool_rejected_as_result(params, tls) ==
    IF params.kind # "object"
    THEN Raised("AttributeError", "no attribute 'get'")
    ELSE IF params.name \notin ToolNames(tls)
    THEN Returned([content |-> TextContent(<<"Error", "Unknown tool">>),
                   isError |-> TRUE])
    ELSE Raised("TypeError", "unexpected keyword argument")

(* _handle_call_tool when the handler is not entered. *)
call_tool_rejected(params, tls) ==
    IF params.kind # "object"
    THEN Raised("AttributeError", "no attribute 'get'")
    ELSE IF params.name \notin ToolNames(tls)
    THEN Raised("ValueError", <<"Unknown tool", params.name>>)
    ELSE Raised("TypeError", "unexpected keyword argument")

(* tool = self._tools[tool_name] *)
Lookup(tls, name) == tls[CHOOSE i \in DOMAIN tls : tls[i].name = name]

InvokeHandler_twice(tool) == <<tool.handler, tool.handler>>

(* The call of tool.handler: the handlers run for one tools/call. *)
InvokeHandler(tool) == <<tool.handler>>

PwnDocErrors ==
    {"PwnDocError", "AuthenticationError", "RateLimitError", "NotFoundError"}

(* _handle_call_tool after the handler: its value as text content, a       *)
(* PwnDocError as an error result, any other exception passed on.          *)
call_tool_result_reraise(out) ==
    IF out.kind = "return"
    THEN Returned([content |-> TextContent("json")])
    ELSE Raised(out.exc, out.tag)

call_tool_result(out) ==
    IF out.kind = "return"
    THEN Returned([content |-> TextContent("json")])
    ELSE IF out.exc \in PwnDocErrors
    THEN Returned([content |-> TextContent(<<"Error", out.tag>>),
                   isError |-> TRUE])
    ELSE Raised(out.exc, out.tag)

unknown_method_silent(id, method) == <<>>

unknown_method_as_internal(id, method) ==
    <<ErrorResponse(id, -32603, <<"Method not found", method>>)>>

unknown_method(id, method) ==
    <<ErrorResponse(id, -32601, <<"Method not found", method>>)>>

handle_message_propagates(m, hr) ==
    IF m.method \in Handlers
    THEN IF hr.exc # None \/ hr.ret = <<>>
         THEN <<>>
         ELSE <<ResultResponse(MsgId(m), hr.ret[1])>>
    ELSE unknown_method(MsgId(m), m.method)

(* _handle_message, given what the handler of the method did (hr). *)
handle_message(m, hr) ==
    IF m.method \in Handlers
    THEN IF hr.exc # None
         THEN <<ErrorResponse(MsgId(m), -32603, hr.text)>>
         ELSE IF hr.ret = <<>>
         THEN <<>>
         ELSE <<ResultResponse(MsgId(m), hr.ret[1])>>
    ELSE unknown_method(MsgId(m), m.method)

(* A dispatcher that consulted _initialized: tools/list and tools/call are *)
(* refused until initialize has been handled.                              *)
handlers_gated(m, tls) ==
    IF m.method = "initialize" THEN handle_initialize
    ELSE IF m.method = "initialized" THEN ReturnedNone
    ELSE IF m.method = "ping" THEN Returned(EmptyObject)
    ELSE IF ~initialized THEN Raised("RuntimeError", "not initialized")
    ELSE IF m.method = "tools/list" THEN handle_list_tools(tls)
    ELSE call_tool_rejected(m.params, tls)

(* The handlers that run without the client. *)
handlers(m, tls) ==
    IF m.method = "initialize" THEN handle_initialize
    ELSE IF m.method = "initialized" THEN ReturnedNone
    ELSE IF m.method = "tools/list" THEN handle_list_tools(tls)
    ELSE IF m.method = "ping" THEN Returned(EmptyObject)
    ELSE call_tool_rejected(m.params, tls)

(* json.dumps of a response: its members in insertion order; json.loads on *)
(* the other side builds the object back from the members.                 *)
Encode(r) ==
    [i \in 1..3 |->
        IF i = 1 THEN <<"jsonrpc", r.jsonrpc>>
        ELSE IF i = 2 THEN <<"id", r.id>>
        ELSE IF "result" \in DOMAIN r THEN <<"result", r.result>>
        ELSE <<"error", r.error>>]

Keys(line) == {line[i][1] : i \in DOMAIN line}

Member(line, k) == line[CHOOSE i \in DOMAIN line : line[i][1] = k][2]

Written_twice(resp) ==
    IF resp = <<>> THEN <<>> ELSE <<Encode(resp[1]), Encode(resp[1])>>

(* if response: write(json.dumps(response) + "\n") *)
Written(resp) == IF resp = <<>> THEN <<>> ELSE <<Encode(resp[1])>>

----------------------------------------------------------------------------
(* run_stdio (server.py 1802-1826): one action per way through the loop.   *)

inputVars == <<message, response, stdout, invoked>>

(* The input line (by number) that each of the lines in out answers. *)
LinesFor(n, out) == [i \in 1..Len(out) |-> n]

Reading == spc = "read" /\ nread < MaxLines

(* readline() returned "": the loop ends. *)
ReadEOF ==
    /\ Reading
    /\ spc' = "eof"
    /\ lastline' = "eof"
    /\ nread' = nread + 1
    /\ message' = <<>>
    /\ response' = <<>>
    /\ stdout' = <<>>
    /\ invoked' = <<>>
    /\ UNCHANGED <<config, now, requests, lim, clientVars, initialized,
                   client_created, tools, skipped, registered, outlog,
                   conns>>

InvalidLines == {"badjson", "notobject"}

after_invalid_json_fatal(kind) == IF kind = "badjson" THEN "eof" ELSE "read"

after_invalid_nonobject_fatal(kind) ==
    IF kind = "notobject" THEN "eof" ELSE "read"

(* Where the loop stands after the except clause of an invalid line:       *)
(* JSONDecodeError and Exception are logged and the loop reads on.         *)
after_invalid(kind) == "read"

(* A line that is not JSON (JSONDecodeError) or not a JSON object          *)
(* (AttributeError on .get): logged, nothing written, the loop goes on.    *)
ReadInvalid ==
    /\ Reading
    /\ \E kind \in InvalidLines :
        /\ lastline' = kind
        /\ skipped' = Append(skipped, kind)
        /\ spc' = after_invalid(kind)
    /\ nread' = nread + 1
    /\ message' = <<>>
    /\ response' = <<>>
    /\ stdout' = <<>>
    /\ invoked' = <<>>
    /\ UNCHANGED <<config, now, requests, lim, clientVars, initialized,
                   client_created, tools, registered, outlog, conns>>

(* A message: answered at once unless a tool handler is entered.  invoked  *)
(* holds the calls of tool.handler made for it, also a call that fails to  *)
(* bind its arguments.                                                     *)
ReadMessage ==
    /\ Reading
    /\ nread' = nread + 1
    /\ lastline' = "message"
    /\ \E m \in Messages :
        /\ message' = <<m>>
        /\ IF m.method = "tools/call" /\ EntersHandler(m.params, tools)
           THEN /\ calls < MaxCalls
                /\ spc' = "tool"
                /\ invoked' = InvokeHandler(Lookup(tools, m.params.name))
                /\ response' = <<>>
                /\ stdout' = <<>>
                /\ UNCHANGED <<initialized, outlog>>
           ELSE /\ spc' = "read"
                /\ invoked' =
                     IF m.method = "tools/call" /\ CallsHandler(m.params, tools)
                     THEN InvokeHandler(Lookup(tools, m.params.name))
                     ELSE <<>>
                /\ response' = handle_message(m, handlers(m, tools))
                /\ stdout' = Written(response')
                /\ outlog' = outlog \o LinesFor(nread', stdout')
                /\ initialized' = (initialized \/ m.method = "initialize")
    /\ UNCHANGED <<config, now, requests, lim, clientVars, client_created,
                   tools, skipped, registered, conns>>

(* The client property on first use: the client is stored, then            *)
(* authenticate() is called and may raise.                                 *)
CreateClient ==
    /\ spc = "tool"
    /\ pc = "idle"
    /\ call = "none"
    /\ ~client_created
    /\ client_created' = TRUE
    /\ \E in \in AuthInputs(session, config) :
        LET a == authenticate(session, now, config, in) IN
        /\ session' = a.session
        /\ net' = a.net
        /\ netst' = NetStatus(in, a.net)
        /\ IF a.exc # None
           THEN /\ pc' = "done"
                /\ call' = "authenticate"
                /\ outcome' = Raise(a.exc, a.msg, 0, None)
           ELSE UNCHANGED <<pc, call, outcome>>
    /\ UNCHANGED <<config, now, requests, lim, attempt, headers, last_error,
                   trace, answer, reauths, slots, calls>>
    /\ UNCHANGED <<spc, initialized, tools, message, response, stdout,
                   invoked, nread, lastline, skipped, registered, outlog,
                   conns>>

(* The handler has returned or raised: the response is built and written. *)
FinishToolCall ==
    /\ spc = "tool"
    /\ pc = "done"
    /\ spc' = "read"
    /\ response' = handle_message(message[1], call_tool_result(outcome))
    /\ stdout' = Written(response')
    /\ outlog' = outlog \o LinesFor(nread, stdout')
    /\ pc' = "idle"
    /\ call' = "none"
    /\ outcome' = NoOutcome
    /\ attempt' = 0
    /\ headers' = None
    /\ last_error' = None
    /\ trace' = <<>>
    /\ answer' = NoResp
    /\ reauths' = 0
    /\ net' = <<>>
    /\ netst' = <<>>
    /\ slots' = 0
    /\ UNCHANGED <<config, now, requests, lim, session, calls>>
    /\ UNCHANGED <<initialized, client_created, tools, message, invoked,
                   nread, lastline, skipped, registered, conns>>

(* The server over stdio, with one client configuration per credential. *)
InitServer ==
    /\ Construct
    /\ spc = "read"
    /\ config.max_retries = 2
    /\ config.retry_delay = 1
    /\ config.rate_limit_requests = 1
    /\ config.rate_limit_period = ClientPeriod

NextServer == ReadEOF \/ ReadInvalid \/ ReadMessage \/ CreateClient
                \/ FinishToolCall \/ ExecStart \/ WaitAcquire \/ WaitSleep
                \/ Attempt \/ Tick

SpecServer == InitServer /\ [][NextServer]_vars

----------------------------------------------------------------------------
(* The registry under any sequence of registrations: _register_tool is     *)
(* called up to MaxRegs times with names that may repeat, then the server  *)
(* runs over stdio.                                                        *)

RegNames == {"list_audits", "get_audit"}

RegHandlers == {"_handle_list_audits", "_handle_get_audit"}

(* One call of _register_tool during construction. *)
Register ==
    /\ spc = "register"
    /\ Len(registered) < MaxRegs
    /\ \E name \in RegNames, handler \in RegHandlers :
        /\ tools' = register_tool(tools, name, handler)
        /\ registered' = Append(registered, Tool(name, handler))
    /\ UNCHANGED <<config, now, requests, lim, clientVars>>
    /\ UNCHANGED <<spc, initialized, client_created, message, response,
                   stdout, invoked, nread, lastline, skipped, outlog,
                   conns>>

(* Construction is over and run_stdio starts. *)
StartStdio ==
    /\ spc = "register"
    /\ spc' = "read"
    /\ UNCHANGED <<config, now, requests, lim, clientVars>>
    /\ UNCHANGED <<initialized, client_created, tools, message, response,
                   stdout, invoked, nread, lastline, skipped, registered,
                   outlog, conns>>

InitRegistry ==
    /\ ConstructBase
    /\ registered = <<>>
    /\ tools = <<>>
    /\ spc = "register"
    /\ ~config.userpass
    /\ config.token
    /\ config.max_retries = 1
    /\ config.retry_delay = 1
    /\ config.rate_limit_requests = 1
    /\ config.rate_limit_period = ClientPeriod

NextRegistry == Register \/ StartStdio \/ NextServer

SpecRegistry == InitRegistry /\ [][NextRegistry]_vars

----------------------------------------------------------------------------
(* run_sse (server.py 1828-1867): every POST /mcp runs handle_sse as a     *)
(* task of one event loop.  A task gives up control only at an await:      *)
(* response.prepare(), request.json() and response.write().  The call of   *)
(* _handle_message between them is synchronous, with every HTTP call and   *)
(* sleep of the tool handler inside it.                                    *)

Yielded_always == TRUE

(* The event loop can run a task: no task is inside synchronous code. *)
Yielded == spc = "sse"

Dispatching == {c \in DOMAIN conns : conns[c].at = "dispatch"}

(* await response.prepare(request): the headers go out, the task waits for *)
(* the body.                                                               *)
SsePrepare ==
    /\ Yielded
    /\ \E c \in DOMAIN conns :
        /\ conns[c].at = "open"
        /\ conns' = [conns EXCEPT ![c].at = "prepared"]
    /\ UNCHANGED <<config, now, requests, lim, clientVars>>
    /\ UNCHANGED <<spc, initialized, client_created, tools, message, response,
                   stdout, invoked, nread, lastline, skipped, registered,
                   outlog>>

(* await request.json() raises (the body is not JSON): the handler ends    *)
(* without a data line.                                                    *)
SseBadBody ==
    /\ Yielded
    /\ \E c \in DOMAIN conns :
        /\ conns[c].at = "prepared"
        /\ conns' = [conns EXCEPT ![c].at = "closed"]
    /\ UNCHANGED <<config, now, requests, lim, clientVars>>
    /\ UNCHANGED <<spc, initialized, client_created, tools, message, response,
                   stdout, invoked, nread, lastline, skipped, registered,
                   outlog>>

(* request.json() returns and the task runs _handle_message(data): to the  *)
(* end at once, or into a tool handler.                                    *)
SseDispatch ==
    /\ Yielded
    /\ \E c \in DOMAIN conns, m \in Messages :
        /\ conns[c].at = "prepared"
        /\ message' = <<m>>
        /\ IF m.method = "tools/call" /\ EntersHandler(m.params, tools)
           THEN /\ calls < MaxCalls
                /\ spc' = "tool"
                /\ invoked' = InvokeHandler(Lookup(tools, m.params.name))
                /\ response' = <<>>
                /\ conns' = [conns EXCEPT ![c].at = "dispatch",
                                          ![c].id = <<MsgId(m)>>]
                /\ UNCHANGED initialized
           ELSE /\ spc' = "sse"
                /\ invoked' =
                     IF m.method = "tools/call" /\ CallsHandler(m.params, tools)
                     THEN InvokeHandler(Lookup(tools, m.params.name))
                     ELSE <<>>
                /\ response' = handle_message(m, handlers(m, tools))
                /\ conns' = [conns EXCEPT
                       ![c].at = "result",
                       ![c].id = <<MsgId(m)>>,
                       ![c].res = IF response' = <<>> THEN <<>>
                                  ELSE <<response'[1].id>>]
                /\ initialized' = (initialized \/ m.method = "initialize")
    /\ UNCHANGED <<config, now, requests, lim, clientVars>>
    /\ UNCHANGED <<client_created, tools, stdout, nread, lastline, skipped,
                   registered, outlog>>

(* The tool handler has returned or raised: _handle_message returns to     *)
(* handle_sse.                                                             *)
SseFinish ==
    /\ spc = "tool"
    /\ pc = "done"
    /\ spc' = "sse"
    /\ response' = handle_message(message[1], call_tool_result(outcome))
    /\ conns' = [c \in DOMAIN conns |->
                   IF conns[c].at = "dispatch"
                   THEN [conns[c] EXCEPT
                           !.at = "result",
                           !.res = IF response' = <<>> THEN <<>>
                                   ELSE <<response'[1].id>>]
                   ELSE conns[c]]
    /\ pc' = "idle"
    /\ call' = "none"
    /\ outcome' = NoOutcome
    /\ attempt' = 0
    /\ headers' = None
    /\ last_error' = None
    /\ trace' = <<>>
    /\ answer' = NoResp
    /\ reauths' = 0
    /\ net' = <<>>
    /\ netst' = <<>>
    /\ slots' = 0
    /\ UNCHANGED <<config, now, requests, lim, session, calls>>
    /\ UNCHANGED <<initialized, client_created, tools, message, stdout,
                   invoked, nread, lastline, skipped, registered, outlog>>

(* if result: await response.write(...); return response: the handler    *)
(* ends and its data and result with it.                                   *)
SseWrite ==
    /\ Yielded
    /\ \E c \in DOMAIN conns :
        /\ conns[c].at = "result"
        /\ conns' = [conns EXCEPT
               ![c].at = "closed",
               ![c].nout = IF conns[c].res # <<>> THEN @ + 1 ELSE @]
    /\ message' = <<>>
    /\ response' = <<>>
    /\ invoked' = <<>>
    /\ UNCHANGED <<config, now, requests, lim, clientVars>>
    /\ UNCHANGED <<spc, initialized, client_created, tools, stdout, nread,
                   lastline, skipped, registered, outlog>>

(* The server on the SSE transport, username and password configured. *)
InitSSE ==
    /\ Construct
    /\ spc = "sse"
    /\ config.userpass
    /\ ~config.token
    /\ config.max_retries = 2
    /\ config.retry_delay = 1
    /\ config.rate_limit_requests = 1
    /\ config.rate_limit_period = ClientPeriod

NextSSE == SsePrepare \/ SseBadBody \/ SseDispatch \/ SseFinish \/ SseWrite
             \/ CreateClient \/ ExecStart \/ WaitAcquire \/ WaitSleep
             \/ Attempt \/ Tick

SpecSSE == InitSSE /\ [][NextSSE]_vars

----------------------------------------------------------------------------
(* Claims about the dispatcher and the stdio transport.  The latest        *)
(* message is handled once no tool call runs for it.                       *)

Handled == message # <<>> /\ spc # "tool"

HasId == message[1].id # JAbsent
HasMethod == message[1].method # None

(* C2: a message with a method and no id (a notification) gets no response *)
(* from the dispatcher and no line on standard output, whatever its method  *)
(* and also when its handler raises.                                       *)
C2_NotificationSilent ==
    (Handled /\ ~HasId /\ HasMethod) => (response = <<>> /\ stdout = <<>>)

(* C3 as stated: every message with an id and a method, whatever the       *)
(* method name, gets exactly one response.                                 *)
C3_Original ==
    (Handled /\ HasId /\ HasMethod) => (Len(response) = 1 /\ Len(stdout) = 1)

(* C3: every message with an id and a method other than "initialized" gets *)
(* exactly one response, written as one line; a message whose method is    *)
(* "initialized" gets none, with or without an id.                         *)
C3_RequestAnswered ==
    /\ (Handled /\ HasId /\ HasMethod /\ message[1].method # "initialized")
          => (Len(response) = 1 /\ Len(stdout) = 1)
    /\ (Handled /\ message[1].method = "initialized")
          => (response = <<>> /\ stdout = <<>>)

(* A tool call with a numeric id has run its handler and been answered. *)
C3_Witness ==
    /\ Handled
    /\ message[1].id = JNum(1)
    /\ message[1].method = "tools/call"
    /\ invoked # <<>>
    /\ Len(response) = 1
    /\ Len(stdout) = 1

(* C4: every response carries jsonrpc "2.0", the id of the message it      *)
(* answers and exactly one of result and error; the line written for it    *)
(* decodes to the same, so the id "abc" comes back as "abc".               *)
C4_ResponseWellFormed ==
    /\ response # <<>> =>
          LET r == response[1] IN
          /\ r.jsonrpc = "2.0"
          /\ r.id = MsgId(message[1])
          /\ ("result" \in DOMAIN r) # ("error" \in DOMAIN r)
    /\ stdout # <<>> =>
          LET l == stdout[1] IN
          /\ Member(l, "jsonrpc") = "2.0"
          /\ Member(l, "id") = MsgId(message[1])
          /\ ("result" \in Keys(l)) # ("error" \in Keys(l))
          /\ message[1].id = JStr("abc") => Member(l, "id") = JStr("abc")

(* A request with id "abc" for an unknown tool was answered with an error  *)
(* that decodes to id "abc".                                               *)
C4_Witness ==
    /\ Handled
    /\ message[1].id = JStr("abc")
    /\ message[1].method = "tools/call"
    /\ stdout # <<>>
    /\ Member(stdout[1], "id") = JStr("abc")
    /\ "error" \in Keys(stdout[1])
    /\ "result" \notin Keys(stdout[1])

(* C12: when the handler of a registered tool ends with a client-layer     *)
(* error (raised by the request or by authenticate() when the client is    *)
(* first created), a tools/call with an id is answered with a result whose *)
(* content holds the error text and whose isError is true, and with no     *)
(* error member.                                                           *)
C12_ClientErrorIsToolError ==
    [][(/\ spc = "tool" /\ spc' = "read"
        /\ HasId
        /\ outcome.kind = "raise"
        /\ outcome.exc \in {"AuthenticationError", "NotFoundError",
                            "RateLimitError", "PwnDocError"})
       => (/\ Len(response') = 1
           /\ "result" \in DOMAIN response'[1]
           /\ "error" \notin DOMAIN response'[1]
           /\ response'[1].result.isError = TRUE
           /\ response'[1].result.content
                = <<[type |-> "text", text |-> <<"Error", outcome.tag>>]>>
           /\ stdout' = <<Encode(response'[1])>>)]_vars

(* The first tools/call of a server without credentials: creating the      *)
(* client failed and the call was answered with an error result.           *)
C12_Witness ==
    /\ Handled
    /\ nread = 1
    /\ message[1].id = JStr("abc")
    /\ invoked # <<>>
    /\ client_created
    /\ Len(response) = 1
    /\ "result" \in DOMAIN response[1]
    /\ "isError" \in DOMAIN response[1].result
    /\ response[1].result.content[1].text
         = <<"Error", "No credentials configured">>

(* C13: a tools/call whose name is not in the registry invokes no handler  *)
(* and makes no upstream call (client, session and rate window are left    *)
(* as they were), and with an id it is answered with an error of code      *)
(* -32603 whose message names the unknown tool, never with a result.       *)
C13_UnknownToolIsError ==
    [][(/\ spc = "read" /\ nread' = nread + 1 /\ message' # <<>>
        /\ message'[1].method = "tools/call"
        /\ message'[1].params.kind = "object"
        /\ message'[1].params.name \notin {tools[i].name : i \in DOMAIN tools})
       => (/\ spc' = "read"
           /\ invoked' = <<>>
           /\ UNCHANGED <<clientVars, requests, now, client_created>>
           /\ message'[1].id # JAbsent =>
                /\ Len(response') = 1
                /\ "result" \notin DOMAIN response'[1]
                /\ response'[1].id = MsgId(message'[1])
                /\ response'[1].error
                     = [code |-> -32603,
                        message |-> <<"Unknown tool",
                                      message'[1].params.name>>]
                /\ stdout' = <<Encode(response'[1])>>)]_vars

(* A tools/call with id "abc" for the name no_such_tool has been answered  *)
(* with the -32603 error that names it.                                    *)
C13_Witness ==
    /\ Handled
    /\ message[1].method = "tools/call"
    /\ message[1].id = JStr("abc")
    /\ message[1].params.kind = "object"
    /\ message[1].params.name = "no_such_tool"
    /\ invoked = <<>>
    /\ Len(response) = 1
    /\ "error" \in DOMAIN response[1]
    /\ response[1].error.code = -32603
    /\ response[1].error.message = <<"Unknown tool", "no_such_tool">>

(* C14: a tools/call with the name of a registered tool calls the handler  *)
(* bound to that name exactly once and no other handler; when the handler  *)
(* returns, the response is a result whose content has exactly one item,   *)
(* of type text.                                                           *)
C14_HandlerOnceOneText ==
    /\ [](\A i \in DOMAIN Registrations :
            (/\ message # <<>>
             /\ message[1].method = "tools/call"
             /\ message[1].params.kind = "object"
             /\ message[1].params.name = Registrations[i].name)
            => invoked = <<Registrations[i].handler>>)
    /\ [][(spc = "tool" /\ spc' = "read" /\ outcome.kind = "return")
          => (/\ Len(response') = 1
              /\ "result" \in DOMAIN response'[1]
              /\ "error" \notin DOMAIN response'[1]
              /\ "isError" \notin DOMAIN response'[1].result
              /\ Len(response'[1].result.content) = 1
              /\ response'[1].result.content[1].type = "text")]_vars

(* tools/call of list_audits with id 1 ran _handle_list_audits once and    *)
(* was answered with one text item.                                        *)
C14_Witness ==
    /\ Handled
    /\ message[1].id = JNum(1)
    /\ message[1].method = "tools/call"
    /\ message[1].params.name = "list_audits"
    /\ message[1].params.args = "ok"
    /\ invoked = <<"_handle_list_audits">>
    /\ Len(response) = 1
    /\ "result" \in DOMAIN response[1]
    /\ "isError" \notin DOMAIN response[1].result
    /\ Len(response[1].result.content) = 1

(* C15: a message with an id whose method is none of initialize,           *)
(* initialized, tools/list, tools/call and ping is answered with an error  *)
(* of code -32601; no tool handler is called and the dispatcher, the       *)
(* session and the rate window are left as they were.                      *)
C15_UnknownMethod ==
    [][(/\ spc = "read" /\ nread' = nread + 1 /\ message' # <<>>
        /\ message'[1].id # JAbsent
        /\ message'[1].method # None
        /\ message'[1].method \notin {"initialize", "initialized",
                                      "tools/list", "tools/call", "ping"})
       => (/\ Len(response') = 1
           /\ "result" \notin DOMAIN response'[1]
           /\ response'[1].id = MsgId(message'[1])
           /\ response'[1].error.code = -32601
           /\ stdout' = <<Encode(response'[1])>>
           /\ invoked' = <<>>
           /\ spc' = "read"
           /\ UNCHANGED <<initialized, client_created, tools, config, now,
                          requests, lim, clientVars>>)]_vars

(* notifications/initialized sent with id 1 after a tool call has made the *)
(* client: answered -32601.                                                *)
C15_Witness ==
    /\ Handled
    /\ client_created
    /\ message[1].id = JNum(1)
    /\ message[1].method = "notifications/initialized"
    /\ Len(response) = 1
    /\ "error" \in DOMAIN response[1]
    /\ response[1].error.code = -32601
    /\ invoked = <<>>

(* C16: a failure that is not a client-layer error and escapes a built-in  *)
(* handler while a message with an id is handled (params that is not an    *)
(* object, arguments the tool handler does not accept, an error of another *)
(* kind raised inside the handler) is answered with an error of code       *)
(* -32603 that carries the failure's text, and the loop goes on reading.   *)
C16_OtherFailureIsInternalError ==
    /\ [][(/\ spc = "read" /\ nread' = nread + 1 /\ message' # <<>>
           /\ message'[1].id # JAbsent
           /\ message'[1].method = "tools/call"
           /\ \/ message'[1].params.kind # "object"
              \/ /\ message'[1].params.name \in
                        {tools[i].name : i \in DOMAIN tools}
                 /\ message'[1].params.args = "bad")
          => (/\ spc' = "read"
              /\ Len(response') = 1
              /\ "result" \notin DOMAIN response'[1]
              /\ response'[1].id = MsgId(message'[1])
              /\ response'[1].error
                   = [code |-> -32603,
                      message |-> IF message'[1].params.kind # "object"
                                  THEN "no attribute 'get'"
                                  ELSE "unexpected keyword argument"]
              /\ stdout' = <<Encode(response'[1])>>)]_vars
    /\ [][(/\ spc = "tool" /\ spc' # "tool"
           /\ HasId
           /\ outcome.kind = "raise"
           /\ outcome.exc \notin {"AuthenticationError", "NotFoundError",
                                  "RateLimitError", "PwnDocError"})
          => (/\ spc' = "read"
              /\ Len(response') = 1
              /\ "result" \notin DOMAIN response'[1]
              /\ response'[1].id = MsgId(message[1])
              /\ response'[1].error
                   = [code |-> -32603, message |-> outcome.tag]
              /\ stdout' = <<Encode(response'[1])>>)]_vars

(* A tools/call with id "abc" whose handler ended with a ValueError was    *)
(* answered -32603 with the error's text.                                  *)
C16_Witness ==
    /\ Handled
    /\ message[1].id = JStr("abc")
    /\ message[1].method = "tools/call"
    /\ invoked = <<"_handle_list_audits">>
    /\ message[1].params.args = "ok"
    /\ Len(response) = 1
    /\ "error" \in DOMAIN response[1]
    /\ response[1].error
         = [code |-> -32603, message |-> "invalid literal for int()"]

(* C26: a line that is not valid JSON produces no output line and does not *)
(* end the read loop (nothing else changes either); a message read after   *)
(* it is dispatched as usual and its response, if it has one, is written.  *)
C26_BadJsonSkipped ==
    /\ [][(spc = "read" /\ nread' = nread + 1 /\ lastline' = "badjson")
          => (/\ spc' = "read"
              /\ response' = <<>>
              /\ stdout' = <<>>
              /\ invoked' = <<>>
              /\ UNCHANGED <<clientVars, requests, now, initialized,
                             client_created, tools>>)]_vars
    /\ []((\E i \in DOMAIN skipped : skipped[i] = "badjson") =>
            /\ spc # "eof" \/ lastline = "eof"
            /\ Handled => stdout = Written(response)
            /\ (Handled /\ HasId /\ HasMethod
                    /\ message[1].method # "initialized")
                  => Len(stdout) = 1)

(* The first line was not JSON; the second, a ping with id 1, was answered *)
(* with one line.                                                          *)
C26_Witness ==
    /\ skipped = <<"badjson">>
    /\ nread = 2
    /\ lastline = "message"
    /\ Handled
    /\ message[1].id = JNum(1)
    /\ message[1].method = "ping"
    /\ Len(stdout) = 1
    /\ Member(stdout[1], "id") = JNum(1)

(* C27: the read loop ends when readline() reports end of input and only   *)
(* then: the loop is always reading, inside a tool call or ended, it is    *)
(* ended exactly when the last line read was the end of input, and a step  *)
(* that reads any other line (bad JSON, JSON that is not an object, an     *)
(* unknown method, an unknown tool) or that finishes a tool call, failed   *)
(* or not, leaves the loop running.                                        *)
C27_LoopEndsOnlyAtEOF ==
    /\ [](/\ spc \in {"read", "tool", "eof"}
          /\ spc = "eof" <=> lastline = "eof")
    /\ [][/\ (spc # "eof" /\ spc' = "eof")
               => (/\ spc = "read"
                   /\ lastline' = "eof"
                   /\ stdout' = <<>>
                   /\ UNCHANGED <<clientVars, requests, tools>>)
          /\ (nread' = nread + 1 /\ lastline' # "eof")
               => spc' \in {"read", "tool"}
          /\ spc = "tool" => spc' \in {"read", "tool"}
          /\ spc = "eof" => UNCHANGED serverVars]_vars

(* The loop has ended at the end of input, after a line that was JSON but  *)
(* not an object.                                                          *)
C27_Witness ==
    /\ spc = "eof"
    /\ lastline = "eof"
    /\ nread = 2
    /\ skipped = <<"notobject">>

(* The response the dispatcher gives at once to message m, written from    *)
(* the message and the registry alone.                                     *)
ImmediateAnswer(m) ==
    IF m.method = "initialize"
    THEN <<ResultResponse(MsgId(m), handle_initialize.ret[1])>>
    ELSE IF m.method = "initialized" THEN <<>>
    ELSE IF m.method = "tools/list"
    THEN <<ResultResponse(MsgId(m), handle_list_tools(tools).ret[1])>>
    ELSE IF m.method = "ping" THEN <<ResultResponse(MsgId(m), EmptyObject)>>
    ELSE IF m.method = "tools/call"
    THEN handle_message(m, call_tool_rejected(m.params, tools))
    ELSE unknown_method(MsgId(m), m.method)

(* C28: the initialized flag gates nothing.  Whatever its value, a message *)
(* enters a tool handler exactly when it is a tools/call that names a      *)
(* registered tool with arguments that bind, every other message gets the  *)
(* response fixed by the message and the registry alone, the response of   *)
(* a tool call is fixed by the message and what the handler did, and       *)
(* initialize returns the same version, capabilities and server info every *)
(* time it is handled.                                                     *)
C28_InitializedGatesNothing ==
    [][/\ (nread' = nread + 1 /\ lastline' = "message")
            => /\ spc' = "tool" <=>
                    (/\ message'[1].method = "tools/call"
                     /\ EntersHandler(message'[1].params, tools))
               /\ spc' # "tool" => response' = ImmediateAnswer(message'[1])
               /\ message'[1].method = "initialize"
                    => response'[1].result =
                         [protocolVersion |-> "2024-11-05",
                          capabilities |-> [tools |-> [listChanged |-> TRUE],
                                            logging |-> EmptyObject],
                          serverInfo |-> [name |-> "pwndoc-mcp-server"]]
       /\ (spc = "tool" /\ spc' = "read")
            => response' = handle_message(message[1],
                                          call_tool_result(outcome))]_vars

(* initialize has never been handled, and a tools/call of list_audits has  *)
(* run its handler and been answered with a result that is not an error.   *)
C28_Witness ==
    /\ ~initialized
    /\ Handled
    /\ message[1].method = "tools/call"
    /\ message[1].params.name = "list_audits"
    /\ message[1].id = JNum(1)
    /\ invoked # <<>>
    /\ response # <<>>
    /\ "result" \in DOMAIN response[1]
    /\ "isError" \notin DOMAIN response[1].result

(* The names of a sequence of registrations, each once, in the order in    *)
(* which they were first registered.                                       *)
RECURSIVE FirstOrder(_)
FirstOrder(rs) ==
    IF rs = <<>> THEN <<>>
    ELSE LET pre == FirstOrder(SubSeq(rs, 1, Len(rs) - 1))
             n == rs[Len(rs)].name
         IN  IF \E i \in DOMAIN pre : pre[i] = n THEN pre ELSE Append(pre, n)

(* The handler given by the last registration of name n. *)
LastHandler(rs, n) ==
    LET last == CHOOSE i \in DOMAIN rs :
                  /\ rs[i].name = n
                  /\ \A j \in DOMAIN rs : rs[j].name = n => j <= i
    IN  rs[last].handler

(* C29: after any sequence of registrations the registry holds one         *)
(* descriptor per distinct name, placed where the name was first           *)
(* registered and carrying what its last registration gave (last write     *)
(* wins); tools/list reports these names once each in that order and       *)
(* tools/call runs the last handler; once the server reads messages no     *)
(* step changes the registry.                                              *)
C29_LastWriteWins ==
    /\ [](/\ [i \in DOMAIN tools |-> tools[i].name] = FirstOrder(registered)
          /\ \A i, j \in DOMAIN tools :
                tools[i].name = tools[j].name => i = j
          /\ \A i \in DOMAIN tools :
                tools[i].handler = LastHandler(registered, tools[i].name))
    /\ [][/\ spc # "register" => UNCHANGED <<tools, registered>>
          /\ (/\ nread' = nread + 1
              /\ lastline' = "message"
              /\ message'[1].method = "tools/list")
               => /\ "result" \in DOMAIN response'[1]
                  /\ [i \in DOMAIN response'[1].result.tools |->
                        response'[1].result.tools[i].name]
                       = FirstOrder(registered)
          /\ (/\ nread' = nread + 1
              /\ lastline' = "message"
              /\ spc' = "tool")
               => invoked' = <<LastHandler(registered,
                                           message'[1].params.name)>>]_vars

(* list_audits was registered, then get_audit, then list_audits again with *)
(* another handler: tools/list reports list_audits, get_audit and the      *)
(* registry holds the second handler of list_audits.                       *)
C29_Witness ==
    /\ registered = << Tool("list_audits", "_handle_list_audits"),
                       Tool("get_audit", "_handle_get_audit"),
                       Tool("list_audits", "_handle_get_audit") >>
    /\ tools = << Tool("list_audits", "_handle_get_audit"),
                  Tool("get_audit", "_handle_get_audit") >>
    /\ Handled
    /\ message[1].method = "tools/list"
    /\ message[1].id = JNum(1)
    /\ response # <<>>
    /\ response[1].result.tools =
         << [name |-> "list_audits"], [name |-> "get_audit"] >>
    /\ Len(stdout) = 1

(* C36: the loop finishes one message before it reads the next line.  A    *)
(* line is read only when no tool call is running and the response of the  *)
(* message before it, if it has one, is written; each input line gets at   *)
(* most one output line, written while that line is the latest one read    *)
(* and carrying the id of its message; so the output lines answer input    *)
(* lines in strictly increasing order.                                     *)
C36_OneMessageAtATime ==
    /\ [](/\ Len(stdout) <= 1
          /\ \A i \in DOMAIN outlog : outlog[i] \in 1..nread
          /\ \A i, j \in DOMAIN outlog : i < j => outlog[i] < outlog[j])
    /\ [][/\ nread' = nread + 1
               => /\ spc = "read"
                  /\ pc = "idle"
                  /\ call = "none"
                  /\ Handled => (stdout = Written(response)
                                 /\ (response # <<>> =>
                                       /\ outlog # <<>>
                                       /\ outlog[Len(outlog)] = nread))
          /\ outlog' # outlog
               => /\ outlog' = Append(outlog, nread')
                  /\ spc' = "read"
                  /\ Len(stdout') = 1
                  /\ Member(stdout'[1], "id") = MsgId(message'[1])]_vars

(* Two lines were read and each was answered with one line: the second, a  *)
(* tools/call with id 1, after its handler had run.                        *)
C36_Witness ==
    /\ nread = 2
    /\ outlog = <<1, 2>>
    /\ Handled
    /\ message[1].method = "tools/call"
    /\ message[1].id = JNum(1)
    /\ invoked # <<>>
    /\ Len(stdout) = 1
    /\ Member(stdout[1], "id") = JNum(1)

(* C37: on the SSE transport the dispatching of a message runs without     *)
(* yielding.  At most one connection is inside _handle_message, and while  *)
(* one is, no other connection takes a step; every slot of the rate        *)
(* limiter and every re-authentication is taken by that one connection, so *)
(* the window never holds more than max_requests timestamps younger than   *)
(* the period; and every connection gets at most one data line, the        *)
(* response to its own message.                                            *)
C37_DispatchIsAtomic ==
    /\ [](/\ Cardinality(Dispatching) <= 1
          /\ spc = "tool" <=> Dispatching # {}
          /\ pc # "idle" => Dispatching # {}
          /\ Len(requests) <= config.rate_limit_requests
          /\ Younger(requests, now, config.rate_limit_period)
               <= config.rate_limit_requests
          /\ \A c \in DOMAIN conns :
                /\ conns[c].nout <= 1
                /\ conns[c].nout = 1 =>
                      (conns[c].res # <<>> /\ conns[c].res = conns[c].id))
    /\ [][/\ Dispatching # {}
               => \A c \in DOMAIN conns :
                     c \notin Dispatching => conns'[c] = conns[c]
          /\ (\/ slots' = slots + 1
              \/ reauths' = reauths + 1
              \/ (net' # net /\ net' # <<>>))
               => (Cardinality(Dispatching) = 1 /\ conns' = conns)]_vars

(* Two connections are in flight: the first has its result and waits to    *)
(* write it, the second is inside a tool call that was admitted by the     *)
(* rate limiter after the first one's request.                             *)
C37_Witness ==
    /\ conns[1].at = "result"
    /\ conns[1].res # <<>>
    /\ conns[2].at = "dispatch"
    /\ calls = 2
    /\ pc = "attempt"
    /\ slots = 1
    /\ Len(requests) = 1
    /\ requests[1] > 0

====
